---- MODULE Spec2Model ----
(***************************************************************************)
(* Model of the cipher configuration registry of SQLite3MultipleCiphers    *)
(* (src/src/cipher_config.c): the programmatic entry points                *)
(* sqlite3mc_config and sqlite3mc_config_cipher, the SQL function          *)
(* sqlite3mc_config(...) (sqlite3mcConfigParams) and the URI ingester      *)
(* sqlite3mcConfigureFromUri, acting on the process-wide parameter table   *)
(* and on the per-connection copies of it.                                 *)
(*                                                                         *)
(* A C string is modelled as a sequence of tokens: the prefixes            *)
(* "default:", "min:", "max:" are one token each, a parameter or cipher    *)
(* name is one token, "" is the empty sequence.  Upper-case spellings are  *)
(* separate tokens folded by Lower, as sqlite3_stricmp folds them.         *)
(***************************************************************************)
EXTENDS Integers, Sequences, FiniteSets, TLC

VARIABLES tables, call, ncalls, thr, mutex

vars == <<tables, call, ncalls, thr, mutex>>

(***************************************************************************)
(* Bounds of the model.                                                    *)
(***************************************************************************)
\* Upper limit of the kdf_iter cells (0x7fffffff in the program), scaled down.
MaxIter == 2

\* Number of calls the host makes in one run.
MaxCalls == 2

\* Number of host threads that call into the registry at the same time.
MaxThreads == 2

(***************************************************************************)
(* Pointers and strings.                                                   *)
(***************************************************************************)
\* The null connection handle (sqlite3* db == NULL).
NULL == "NULL"

\* A null const char* argument, distinct from every string.
NullStr == <<"(null)">>

\* A missing parameter table (CodecParameter* == NULL).
NoTable == <<>>

\* The address of the process-wide table.
GlobalRef == "globalCodecParameterTable"

\* Case folding of sqlite3_stricmp / sqlite3_strnicmp on the tokens in use.
Lower(s) ==
  CASE s = "DEFAULT:"   -> "default:"
    [] s = "HMAC_CHECK" -> "hmac_check"
    [] s = "SQLCipher"  -> "sqlcipher"
    [] s = "LEGACY"     -> "legacy"
    [] OTHER            -> s

\* sqlite3_strnicmp(name, pfx, strlen(pfx)) == 0
HasPrefix(name, pfx) == Len(name) > 0 /\ Lower(Head(name)) = pfx

\* sqlite3_stricmp(name, m_name) == 0, m_name a table string (one token or "")
StrIEq(name, m_name) ==
  IF m_name = "" THEN name = <<>>
  ELSE Len(name) = 1 /\ Lower(name[1]) = Lower(m_name)

\* The three prefix tests, in the fixed order default:, min:, max:.
ParsePrefixes(name) ==
  LET d  == HasPrefix(name, "default:")
      n1 == IF d THEN Tail(name) ELSE name
      mi == HasPrefix(n1, "min:")
      n2 == IF mi THEN Tail(n1) ELSE n1
      ma == HasPrefix(n2, "max:")
      n3 == IF ma THEN Tail(n2) ELSE n2
  IN  [hasDefaultPrefix |-> d, hasMinPrefix |-> mi, hasMaxPrefix |-> ma,
       paramName |-> n3]

(***************************************************************************)
(* The static tables (cipher_common.c, not part of src/).                  *)
(***************************************************************************)
\* Highest SQLCipher legacy version.
SQLCIPHER_VERSION_MAX == 2

Cell(n, v, d, lo, hi) ==
  [m_name |-> n, m_value |-> v, m_default |-> d, m_minValue |-> lo, m_maxValue |-> hi]

\* CIPHER_PARAMS_SENTINEL: the empty-named entry that ends a schema.
ParamSentinel == Cell("", 0, 0, 0, 0)

\* The cipher descriptors, ended by an empty-named sentinel.
codecDescriptorTable == <<[m_name |-> "chacha20"], [m_name |-> "sqlcipher"], [m_name |-> ""]>>

\* Number of ciphers: the upper limit of the common parameter "cipher".
CODEC_TYPE_MAX == Len(codecDescriptorTable) - 1

commonParams ==
  << Cell("cipher", 1, 1, 1, CODEC_TYPE_MAX),
     Cell("hmac_check", 1, 1, 0, 1),
     ParamSentinel >>

chacha20Params ==
  << Cell("legacy", 0, 0, 0, 1),
     ParamSentinel >>

sqlcipherParams ==
  << Cell("kdf_iter", MaxIter, MaxIter, 1, MaxIter),
     Cell("legacy", 0, 0, 0, SQLCIPHER_VERSION_MAX),
     ParamSentinel >>

\* Entry 0 holds the common parameters under a reserved, non-empty name (the
\* searches of sqlite3mc_config_cipher and of the SQL function start at entry
\* 0 and stop at the first empty name); the ciphers follow in descriptor order.
globalCodecParameterTable ==
  << [m_name |-> "global",    m_params |-> commonParams],
     [m_name |-> "chacha20",  m_params |-> chacha20Params],
     [m_name |-> "sqlcipher", m_params |-> sqlcipherParams],
     [m_name |-> "",          m_params |-> <<>>] >>

\* kdf_iter of each SQLCipher legacy version.
versionParams == <<1, 2>>

(***************************************************************************)
(* Table access.                                                           *)
(***************************************************************************)
\* The heap is [global |-> table, overlay |-> [connection -> table or NoTable]].
Deref(h, ref) == IF ref = GlobalRef THEN h.global ELSE h.overlay[ref]

StoreCell(h, ref, j, i, cell) ==
  IF ref = GlobalRef
  THEN [h EXCEPT !.global[j].m_params[i] = cell]
  ELSE [h EXCEPT !.overlay[ref][j].m_params[i] = cell]

\* sqlite3mcGetCodecParams handing out the process-wide table.
GetCodecParamsGlobal(h, db) ==
  IF h.overlay[db] = NoTable THEN NULL ELSE GlobalRef

\* sqlite3mcGetCodecParams: the table the connection's companion function
\* sqlite3mc_config_table() hands out, NULL when the query yields none.
sqlite3mcGetCodecParams(h, db) ==
  IF h.overlay[db] = NoTable THEN NULL ELSE db

\* for (; strlen(param->m_name) > 0; ++param) if (stricmp(...) == 0) break;
FindParam(params, name) ==
  CHOOSE i \in 1..Len(params) :
    /\ params[i].m_name = "" \/ StrIEq(name, params[i].m_name)
    /\ \A k \in 1..(i - 1) : params[k].m_name # "" /\ ~StrIEq(name, params[k].m_name)

\* for (j = from; strlen(table[j].m_name) > 0; ++j) if (stricmp(...) == 0) break;
\* (from is the 1-based position of the first entry searched)
FindEntry(table, name, from) ==
  CHOOSE j \in from..Len(table) :
    /\ table[j].m_name = "" \/ StrIEq(name, table[j].m_name)
    /\ \A k \in from..(j - 1) : table[k].m_name # "" /\ ~StrIEq(name, table[k].m_name)

\* The conditional expression of line 97 reduced to its last operand.
ViewValueCurrentOnly(param, p) ==
  param.m_value

\* value = hasDefaultPrefix ? m_default : hasMinPrefix ? m_minValue : ...
ViewValue(param, p) ==
  IF p.hasDefaultPrefix THEN param.m_default
  ELSE IF p.hasMinPrefix THEN param.m_minValue
  ELSE IF p.hasMaxPrefix THEN param.m_maxValue
  ELSE param.m_value

(***************************************************************************)
(* sqlite3mc_config (lines 45-118).                                        *)
(***************************************************************************)
\* Line 55 without its test of db.
ConfigRefusedNameOnly(db, paramName, newValue) ==
  paramName = NullStr

\* Line 55: the call is refused before any table is looked at.
ConfigRefused(db, paramName, newValue) ==
  paramName = NullStr \/ (db = NULL /\ newValue >= 0)

\* Line 98 without its test against m_minValue.
ConfigWritesNoLower(param, p, newValue) ==
  /\ ~p.hasMinPrefix /\ ~p.hasMaxPrefix
  /\ newValue >= 0
  /\ newValue <= param.m_maxValue

\* Line 98 without its test against m_maxValue.
ConfigWritesNoUpper(param, p, newValue) ==
  /\ ~p.hasMinPrefix /\ ~p.hasMaxPrefix
  /\ newValue >= 0
  /\ newValue >= param.m_minValue

\* Line 98: the condition under which the cell is written.
ConfigWrites(param, p, newValue) ==
  /\ ~p.hasMinPrefix /\ ~p.hasMaxPrefix
  /\ newValue >= 0
  /\ newValue >= param.m_minValue /\ newValue <= param.m_maxValue

\* Lines 100-105 with the assignment of m_value left to the unprefixed case.
ConfigStoreDefaultOnly(param, p, newValue) ==
  IF p.hasDefaultPrefix /\ ~StrIEq(p.paramName, "hmac_check")
  THEN [param EXCEPT !.m_default = newValue]
  ELSE [param EXCEPT !.m_value = newValue]

\* Lines 100-105: the cell after the write; the default of "hmac_check" is kept.
ConfigStore(param, p, newValue) ==
  IF p.hasDefaultPrefix /\ ~StrIEq(p.paramName, "hmac_check")
  THEN [param EXCEPT !.m_default = newValue, !.m_value = newValue]
  ELSE [param EXCEPT !.m_value = newValue]

\* Lines 87-117: the parameter at entry i of the common schema is read and written.
ConfigAccessAt(h, codecParams, i, p, newValue) ==
  LET param == Deref(h, codecParams)[1].m_params[i] IN
  IF param.m_name = "" THEN [h |-> h, value |-> -1]
  ELSE IF ConfigWrites(param, p, newValue)
       THEN [h |-> StoreCell(h, codecParams, 1, i, ConfigStore(param, p, newValue)),
             value |-> newValue]
       ELSE [h |-> h, value |-> ViewValue(param, p)]

\* Lines 66-86: the prefixes are taken off and the common schema is searched.
ConfigAccess(h, codecParams, p, newValue) ==
  ConfigAccessAt(h, codecParams,
                 FindParam(Deref(h, codecParams)[1].m_params, p.paramName), p, newValue)

\* The whole function: the heap after the call and the returned value.
sqlite3mc_config(h, db, paramName, newValue) ==
  IF ConfigRefused(db, paramName, newValue) THEN [h |-> h, value |-> -1]
  ELSE IF (IF db # NULL THEN sqlite3mcGetCodecParams(h, db) ELSE GlobalRef) = NULL
       THEN [h |-> h, value |-> -1]
       ELSE ConfigAccess(h, IF db # NULL THEN sqlite3mcGetCodecParams(h, db) ELSE GlobalRef,
                         ParsePrefixes(paramName), newValue)

(***************************************************************************)
(* sqlite3mc_config_cipher (lines 120-247) and the SQLCipher legacy        *)
(* configurator it calls.                                                  *)
(***************************************************************************)
\* Lines 128-141 without the branch of line 135.
CipherRefusedNamesOnly(db, cipherName, paramName, newValue) ==
  cipherName = NullStr \/ paramName = NullStr

\* Lines 128-141: the call is refused before any table is looked at.
CipherRefused(db, cipherName, paramName, newValue) ==
  \/ cipherName = NullStr \/ paramName = NullStr
  \/ (db = NULL /\ newValue >= 0)

\* Lines 184-190 without the test of line 188.
LegacyInvokedAnyPrefix(db, cipherName, p, newValue) ==
  /\ db # NULL
  /\ StrIEq(cipherName, "sqlcipher")
  /\ StrIEq(p.paramName, "legacy")
  /\ newValue > 0 /\ newValue <= SQLCIPHER_VERSION_MAX

\* Lines 184-190: the condition under which the legacy configurator is called.
LegacyInvoked(db, cipherName, p, newValue) ==
  /\ db # NULL
  /\ StrIEq(cipherName, "sqlcipher")
  /\ StrIEq(p.paramName, "legacy")
  /\ ~p.hasMinPrefix /\ ~p.hasMaxPrefix
  /\ newValue > 0 /\ newValue <= SQLCIPHER_VERSION_MAX

\* Lines 218-220 without the test against m_maxValue.
CipherWritesNoUpper(param, p, newValue) ==
  /\ ~p.hasMinPrefix /\ ~p.hasMaxPrefix
  /\ newValue >= 0
  /\ newValue >= param.m_minValue

\* Lines 218-220: the condition under which the cell is written.
CipherWrites(param, p, newValue) ==
  /\ ~p.hasMinPrefix /\ ~p.hasMaxPrefix
  /\ newValue >= 0
  /\ newValue >= param.m_minValue /\ newValue <= param.m_maxValue

\* Lines 222-226 with m_minValue assigned where m_default is meant.
CipherStoreIntoMin(param, p, newValue) ==
  IF p.hasDefaultPrefix
  THEN [param EXCEPT !.m_minValue = newValue, !.m_value = newValue]
  ELSE [param EXCEPT !.m_value = newValue]

\* Lines 222-226: the cell after the write.
CipherStore(param, p, newValue) ==
  IF p.hasDefaultPrefix
  THEN [param EXCEPT !.m_default = newValue, !.m_value = newValue]
  ELSE [param EXCEPT !.m_value = newValue]

\* One invocation of the legacy configurator, as the call log records it.
LegacyCall(db, isDefault, version) ==
  [db |-> db, isDefault |-> isDefault, version |-> version]

\* Lines 207-245: the parameter at entry i of schema j is read and written.
CipherAccessAt(h, codecParams, j, i, p, newValue, log) ==
  LET param == Deref(h, codecParams)[j].m_params[i] IN
  IF param.m_name = "" THEN [h |-> h, value |-> -1, legacy |-> log]
  ELSE IF CipherWrites(param, p, newValue)
       THEN [h |-> StoreCell(h, codecParams, j, i, CipherStore(param, p, newValue)),
             value |-> newValue, legacy |-> log]
       ELSE [h |-> h, value |-> ViewValue(param, p), legacy |-> log]

\* Lines 203-206: the parameter is looked up in schema j.
CipherAccess(h, codecParams, j, p, newValue, log) ==
  CipherAccessAt(h, codecParams, j,
                 FindParam(Deref(h, codecParams)[j].m_params, p.paramName),
                 p, newValue, log)

\* Line 143 with the process-wide table taken when the connection has none.
CodecParamsOrGlobal(h, db) ==
  IF db # NULL /\ sqlite3mcGetCodecParams(h, db) # NULL
  THEN sqlite3mcGetCodecParams(h, db)
  ELSE GlobalRef

\* Line 143: the table the call works on, NULL when there is none.
CodecParamsOf(h, db) ==
  IF db # NULL THEN sqlite3mcGetCodecParams(h, db) ELSE GlobalRef

\* sqlite3mc_config_cipher on a parameter that is not "legacy" (lines 128-181
\* and 203-246), as the legacy configurator calls it.
ConfigCipherPlain(h, db, cipherName, paramName, newValue) ==
  IF CipherRefused(db, cipherName, paramName, newValue) \/ CodecParamsOf(h, db) = NULL
  THEN [h |-> h, value |-> -1, legacy |-> <<>>]
  ELSE
    LET j == FindEntry(Deref(h, CodecParamsOf(h, db)), cipherName, 1) IN
    IF Deref(h, CodecParamsOf(h, db))[j].m_name = ""
    THEN [h |-> h, value |-> -1, legacy |-> <<>>]
    ELSE CipherAccess(h, CodecParamsOf(h, db), j, ParsePrefixes(paramName), newValue, <<>>)

\* sqlite3mcConfigureSQLCipherVersion(db, configDefault, legacyVersion): sets
\* the cells that depend on the SQLCipher version through
\* sqlite3mc_config_cipher, under "default:" when configDefault is set.
sqlite3mcConfigureSQLCipherVersion(h, db, configDefault, legacyVersion) ==
  IF legacyVersion > 0 /\ legacyVersion <= SQLCIPHER_VERSION_MAX
  THEN ConfigCipherPlain(h, db, <<"sqlcipher">>,
                         IF configDefault THEN <<"default:", "kdf_iter">> ELSE <<"kdf_iter">>,
                         versionParams[legacyVersion]).h
  ELSE h

\* Lines 160-245: the cipher is entry j of the table.
ConfigCipherAt(h, db, codecParams, j, cipherName, p, newValue) ==
  IF LegacyInvoked(db, cipherName, p, newValue)
  THEN CipherAccess(sqlite3mcConfigureSQLCipherVersion(h, db, p.hasDefaultPrefix, newValue),
                    codecParams, j, p, newValue,
                    <<LegacyCall(db, p.hasDefaultPrefix, newValue)>>)
  ELSE CipherAccess(h, codecParams, j, p, newValue, <<>>)

\* The whole function: the heap after the call, the returned value and the
\* invocations of the legacy configurator it made.
sqlite3mc_config_cipher(h, db, cipherName, paramName, newValue) ==
  IF CipherRefused(db, cipherName, paramName, newValue) \/ CodecParamsOf(h, db) = NULL
  THEN [h |-> h, value |-> -1, legacy |-> <<>>]
  ELSE
    LET j == FindEntry(Deref(h, CodecParamsOf(h, db)), cipherName, 1) IN
    IF Deref(h, CodecParamsOf(h, db))[j].m_name = ""
    THEN [h |-> h, value |-> -1, legacy |-> <<>>]
    ELSE ConfigCipherAt(h, db, CodecParamsOf(h, db), j, cipherName,
                        ParsePrefixes(paramName), newValue)

(***************************************************************************)
(* The SQL function sqlite3mc_config(...) (sqlite3mcConfigParams, lines    *)
(* 339-620).  An SQL value is [type, int] or [type, text] or [type]; the   *)
(* result is one too.  The function runs on the table it was registered    *)
(* with, the copy owned by its connection.                                 *)
(***************************************************************************)
SqlNull == [type |-> "null"]
SqlInt(n) == [type |-> "integer", int |-> n]
SqlText(t) == [type |-> "text", text |-> t]

\* sqlite3_value_text: the text of a text value, the digits of an integer.
ValueText(v) == IF v.type = "text" THEN v.text ELSE <<ToString(v.int)>>

RECURSIVE JoinNames(_, _)
\* Lines 435-452: the names of a schema from entry j on, separated by ",".
JoinNames(params, j) ==
  IF params[j].m_name = "" THEN <<>>
  ELSE IF params[j + 1].m_name = "" THEN <<params[j].m_name>>
  ELSE <<params[j].m_name, ",">> \o JoinNames(params, j + 1)

\* Lines 414-466: one argument.
SqlOneArg(h, ref, p, isCommonParam1, i, j) ==
  LET table == Deref(h, ref) IN
  IF isCommonParam1
  THEN LET value == ViewValue(table[1].m_params[i], p)
       IN  IF StrIEq(p.paramName, "cipher")
           THEN IF value - 1 \in 0..(Len(codecDescriptorTable) - 1)
                THEN SqlText(<<codecDescriptorTable[value].m_name>>)
                ELSE [type |-> "out-of-bounds read"]
           ELSE SqlInt(value)
  ELSE IF table[j].m_params[1].m_name # ""
       THEN SqlText(JoinNames(table[j].m_params, 1))
       ELSE SqlNull

\* Lines 474-505 with the loop index stored where j + 1 is meant.
SqlSetCipherLoopIndex(h, ref, p, i, arg2) ==
  IF arg2.type = "text"
  THEN LET j == FindEntry(codecDescriptorTable, arg2.text, 1)
           param1 == Deref(h, ref)[1].m_params[i]
       IN  IF codecDescriptorTable[j].m_name # ""
           THEN [h |-> StoreCell(h, ref, 1, i,
                         IF p.hasDefaultPrefix
                         THEN [param1 EXCEPT !.m_default = j - 1, !.m_value = j - 1]
                         ELSE [param1 EXCEPT !.m_value = j - 1]),
                 result |-> SqlText(<<codecDescriptorTable[j].m_name>>)]
           ELSE [h |-> h, result |-> SqlNull]
  ELSE [h |-> h, result |-> SqlNull]

\* Lines 474-505: two arguments, the common parameter "cipher".
SqlSetCipher(h, ref, p, i, arg2) ==
  IF arg2.type = "text"
  THEN LET j == FindEntry(codecDescriptorTable, arg2.text, 1)
           param1 == Deref(h, ref)[1].m_params[i]
       IN  IF codecDescriptorTable[j].m_name # ""
           THEN [h |-> StoreCell(h, ref, 1, i,
                         IF p.hasDefaultPrefix
                         THEN [param1 EXCEPT !.m_default = j, !.m_value = j]
                         ELSE [param1 EXCEPT !.m_value = j]),
                 result |-> SqlText(<<codecDescriptorTable[j].m_name>>)]
           ELSE [h |-> h, result |-> SqlNull]
  ELSE [h |-> h, result |-> SqlNull]

\* Line 510: the range check of the two-argument form.
SqlCommonWrites(param1, p, value) ==
  value >= param1.m_minValue /\ value <= param1.m_maxValue

\* Lines 512-517: the cell after the write; the default of "hmac_check" is kept.
SqlCommonStore(param1, p, value) ==
  IF p.hasDefaultPrefix /\ ~StrIEq(p.paramName, "hmac_check")
  THEN [param1 EXCEPT !.m_default = value, !.m_value = value]
  ELSE [param1 EXCEPT !.m_value = value]

\* Lines 506-529: two arguments, any other common parameter.
SqlSetCommon(h, ref, p, i, arg2) ==
  IF arg2.type = "integer"
  THEN LET param1 == Deref(h, ref)[1].m_params[i]
           value  == arg2.int
       IN  IF SqlCommonWrites(param1, p, value)
           THEN [h |-> StoreCell(h, ref, 1, i, SqlCommonStore(param1, p, value)),
                 result |-> SqlInt(value)]
           ELSE [h |-> h, result |-> SqlNull]
  ELSE [h |-> h, result |-> SqlNull]

\* Lines 560-572: the condition under which the legacy configurator is called.
SqlLegacyInvoked(argv, nameParam1, p2) ==
  /\ Len(argv) = 3
  /\ StrIEq(nameParam1, "sqlcipher")
  /\ StrIEq(p2.paramName, "legacy")
  /\ ~p2.hasMinPrefix /\ ~p2.hasMaxPrefix
  /\ argv[3].type = "integer"
  /\ argv[3].int > 0 /\ argv[3].int <= SQLCIPHER_VERSION_MAX

\* Line 583: the condition under which the three-argument form may write.
SqlCipherMayWrite(p2, arg3) ==
  ~p2.hasMinPrefix /\ ~p2.hasMaxPrefix /\ arg3.type = "integer"

\* Lines 589-593: the cell after the write.
SqlCipherStore(param2, p2, value) ==
  IF p2.hasDefaultPrefix
  THEN [param2 EXCEPT !.m_default = value, !.m_value = value]
  ELSE [param2 EXCEPT !.m_value = value]

\* Lines 575-612: the parameter at entry i of schema j is read or written.
SqlCipherAccessAt(h, ref, j, i, p2, argv, log) ==
  LET param2 == Deref(h, ref)[j].m_params[i] IN
  IF param2.m_name = "" THEN [h |-> h, result |-> SqlNull, legacy |-> log]
  ELSE IF Len(argv) = 2
       THEN [h |-> h, result |-> SqlInt(ViewValue(param2, p2)), legacy |-> log]
       ELSE IF SqlCipherMayWrite(p2, argv[3])
                 /\ argv[3].int >= param2.m_minValue /\ argv[3].int <= param2.m_maxValue
            THEN [h |-> StoreCell(h, ref, j, i, SqlCipherStore(param2, p2, argv[3].int)),
                  result |-> SqlInt(argv[3].int), legacy |-> log]
            ELSE [h |-> h, result |-> SqlNull, legacy |-> log]

\* Lines 554-557: the parameter is looked up in schema j.
SqlCipherAccess(h, ref, j, p2, argv, log) ==
  SqlCipherAccessAt(h, ref, j, FindParam(Deref(h, ref)[j].m_params, p2.paramName),
                    p2, argv, log)

\* Lines 531-613: the first argument names a cipher, the second a parameter.
SqlCipherParam(h, db, ref, j, nameParam1, p2, argv) ==
  IF SqlLegacyInvoked(argv, nameParam1, p2)
  THEN SqlCipherAccess(
         sqlite3mcConfigureSQLCipherVersion(h, db, p2.hasDefaultPrefix, argv[3].int),
         ref, j, p2, argv, <<LegacyCall(db, p2.hasDefaultPrefix, argv[3].int)>>)
  ELSE SqlCipherAccess(h, ref, j, p2, argv, <<>>)

\* The function without the test of line 393: a prefix is accepted on a cipher name.
ConfigParamsPrefixedCipher(h, db, argv) ==
  LET argc  == Len(argv)
      quiet == [h |-> h, result |-> SqlNull, legacy |-> <<>>]
  IN
  IF argv[1].type = "null" \/ (argc > 1 /\ argv[2].type = "null") THEN quiet
  ELSE
    LET codecParams == db
        table       == Deref(h, codecParams)
        p           == ParsePrefixes(ValueText(argv[1]))
        nameParam1  == p.paramName
        i           == FindParam(table[1].m_params, nameParam1)
        isCommonParam1 == table[1].m_params[i].m_name # ""
        j           == FindEntry(table, nameParam1, 1)
        isCipherParam1 == ~isCommonParam1 /\ table[j].m_name # ""
    IN
    IF ~isCommonParam1 /\ ~isCipherParam1 THEN quiet
    ELSE IF argc = 1
         THEN [h |-> h, result |-> SqlOneArg(h, codecParams, p, isCommonParam1, i, j),
               legacy |-> <<>>]
    ELSE IF argc = 2 /\ isCommonParam1
         THEN LET r == IF StrIEq(nameParam1, "cipher")
                       THEN SqlSetCipher(h, codecParams, p, i, argv[2])
                       ELSE SqlSetCommon(h, codecParams, p, i, argv[2])
              IN  [h |-> r.h, result |-> r.result, legacy |-> <<>>]
    ELSE IF isCipherParam1 /\ argv[2].type = "text"
         THEN SqlCipherParam(h, db, codecParams, j, nameParam1,
                             ParsePrefixes(ValueText(argv[2])), argv)
    ELSE quiet

\* The whole function, called on connection db with the arguments argv.
sqlite3mcConfigParams(h, db, argv) ==
  LET argc  == Len(argv)
      quiet == [h |-> h, result |-> SqlNull, legacy |-> <<>>]
  IN
  IF argv[1].type = "null" \/ (argc > 1 /\ argv[2].type = "null") THEN quiet
  ELSE
    LET codecParams == db
        table       == Deref(h, codecParams)
        p           == ParsePrefixes(ValueText(argv[1]))
        nameParam1  == p.paramName
        i           == FindParam(table[1].m_params, nameParam1)
        isCommonParam1 == table[1].m_params[i].m_name # ""
        j           == FindEntry(table, nameParam1, 1)
        isCipherParam1 ==
          /\ ~isCommonParam1
          /\ ~p.hasDefaultPrefix /\ ~p.hasMinPrefix /\ ~p.hasMaxPrefix
          /\ table[j].m_name # ""
    IN
    IF ~isCommonParam1 /\ ~isCipherParam1 THEN quiet
    ELSE IF argc = 1
         THEN [h |-> h, result |-> SqlOneArg(h, codecParams, p, isCommonParam1, i, j),
               legacy |-> <<>>]
    ELSE IF argc = 2 /\ isCommonParam1
         THEN LET r == IF StrIEq(nameParam1, "cipher")
                       THEN SqlSetCipher(h, codecParams, p, i, argv[2])
                       ELSE SqlSetCommon(h, codecParams, p, i, argv[2])
              IN  [h |-> r.h, result |-> r.result, legacy |-> <<>>]
    ELSE IF isCipherParam1 /\ argv[2].type = "text"
         THEN SqlCipherParam(h, db, codecParams, j, nameParam1,
                             ParsePrefixes(ValueText(argv[2])), argv)
    ELSE quiet

(***************************************************************************)
(* sqlite3mcConfigureFromUri (lines 622-697).  A database file name is     *)
(* NoFileName or [cipher |-> the value of the query parameter "cipher",    *)
(* NullStr when absent, q |-> the integer query parameters, a function     *)
(* from the keys present to their values].                                 *)
(***************************************************************************)
NoFileName == [null |-> TRUE, cipher |-> NullStr, q |-> <<>>]
FileName(cipher, q) == [null |-> FALSE, cipher |-> cipher, q |-> q]

\* sqlite3_uri_parameter(zFilename, "cipher")
sqlite3_uri_parameter(file) == file.cipher

\* (int) sqlite3_uri_int64(zFilename, key, dflt), on values that fit an int.
sqlite3_uri_int(file, key, dflt) ==
  IF key \in DOMAIN file.q THEN file.q[key] ELSE dflt

\* sqlite3_uri_boolean(zFilename, key, dflt) on numeric text
sqlite3_uri_boolean(file, key, dflt) ==
  IF key \in DOMAIN file.q THEN file.q[key] # 0 ELSE dflt

RECURSIVE UriCipherParams(_, _, _, _, _, _, _, _)
\* Line 674: the loop goes on after the call r for entry j.
UriCipherParamsNext(r, db, file, configDefault, cipherName, cipherParams, j, log) ==
  UriCipherParams(r.h, db, file, configDefault, cipherName, cipherParams, j + 1,
                  log \o r.legacy)

\* Lines 674-687: the parameters of the cipher's schema, from entry j on.
UriCipherParams(h, db, file, configDefault, cipherName, cipherParams, j, log) ==
  IF cipherParams[j].m_name = "" THEN [h |-> h, legacy |-> log]
  ELSE IF sqlite3_uri_int(file, cipherParams[j].m_name, -1) >= 0
       THEN UriCipherParamsNext(
              sqlite3mc_config_cipher(h, db, cipherName,
                IF configDefault THEN <<"default:", cipherParams[j].m_name>>
                ELSE <<cipherParams[j].m_name>>,
                sqlite3_uri_int(file, cipherParams[j].m_name, -1)),
              db, file, configDefault, cipherName, cipherParams, j, log)
       ELSE UriCipherParams(h, db, file, configDefault, cipherName, cipherParams, j + 1, log)

\* Lines 664-671: the condition under which the legacy configurator is called.
UriLegacyInvoked(file, cipherName) ==
  /\ StrIEq(cipherName, "sqlcipher")
  /\ sqlite3_uri_int(file, "legacy", 0) > 0
  /\ sqlite3_uri_int(file, "legacy", 0) <= SQLCIPHER_VERSION_MAX

\* Lines 663-687: SQLCipher's legacy version, then the cipher's parameters.
UriCipher(h, db, file, configDefault, cipherName, cipherParams) ==
  IF UriLegacyInvoked(file, cipherName)
  THEN UriCipherParams(
         sqlite3mcConfigureSQLCipherVersion(h, db, configDefault,
                                            sqlite3_uri_int(file, "legacy", 0)),
         db, file, configDefault, cipherName, cipherParams, 1,
         <<LegacyCall(db, configDefault, sqlite3_uri_int(file, "legacy", 0))>>)
  ELSE UriCipherParams(h, db, file, configDefault, cipherName, cipherParams, 1, <<>>)

\* Lines 658-661: hmac_check=0 clears the common parameter "hmac_check".
UriHmacCheck(h, db, file) ==
  IF ~sqlite3_uri_boolean(file, "hmac_check", TRUE)
  THEN sqlite3mc_config(h, db, <<"hmac_check">>, 0).h
  ELSE h

\* Lines 650-657: the common parameter "cipher" is set to the cipher's index.
UriSetCipher(h, db, configDefault, j) ==
  sqlite3mc_config(h, db,
                   IF configDefault THEN <<"default:", "cipher">> ELSE <<"cipher">>, j).h

\* Lines 646-693: the cipher is looked up: j is where the search ended (0-based).
UriConfigure(h, db, file, configDefault, cipherName, j) ==
  IF globalCodecParameterTable[j + 1].m_name = ""
  THEN [h |-> h, rc |-> "SQLITE_ERROR",
        msg |-> <<"unknown cipher '">> \o cipherName \o <<"'">>, legacy |-> <<>>]
  ELSE [rc |-> "SQLITE_OK", msg |-> <<>>] @@
       UriCipher(UriHmacCheck(UriSetCipher(h, db, configDefault, j), db, file),
                 db, file, configDefault, cipherName,
                 globalCodecParameterTable[j + 1].m_params)

\* The function with the search of line 639 started at entry 0.
ConfigureFromUriFromEntry0(h, db, file, configDefault) ==
  IF file = NoFileName \/ sqlite3_uri_parameter(file) = NullStr
  THEN [h |-> h, rc |-> "SQLITE_OK", msg |-> <<>>, legacy |-> <<>>]
  ELSE UriConfigure(h, db, file, configDefault, sqlite3_uri_parameter(file),
                    FindEntry(globalCodecParameterTable, sqlite3_uri_parameter(file), 1) - 1)

\* The whole function: the heap after the call, the result code, the message
\* and the invocations of the legacy configurator.
sqlite3mcConfigureFromUri(h, db, file, configDefault) ==
  IF file = NoFileName \/ sqlite3_uri_parameter(file) = NullStr
  THEN [h |-> h, rc |-> "SQLITE_OK", msg |-> <<>>, legacy |-> <<>>]
  ELSE UriConfigure(h, db, file, configDefault, sqlite3_uri_parameter(file),
                    FindEntry(globalCodecParameterTable, sqlite3_uri_parameter(file), 2) - 1)

(***************************************************************************)
(* Inputs.                                                                 *)
(***************************************************************************)
Prefixes == {<<>>, <<"default:">>, <<"min:">>, <<"max:">>}

BaseNames == {"cipher", "hmac_check", "kdf_iter", "legacy"}

\* Parameter names: every prefix on every name, a null pointer, an upper-case
\* spelling, two prefixes in the order the parser takes and in the other one.
ParamNameArgs ==
  {p \o <<b>> : p \in Prefixes, b \in BaseNames}
    \cup {NullStr, <<"DEFAULT:", "HMAC_CHECK">>, <<"default:", "min:", "legacy">>,
          <<"min:", "default:", "cipher">>}

\* Cipher names: the ciphers, the name of entry 0, an unknown name, a null pointer.
CipherNameArgs == {<<"chacha20">>, <<"sqlcipher">>, <<"global">>, <<"aes128cbc">>, NullStr}

Values == -1..(MaxIter + 1)

ParamTexts == {SqlText(n) : n \in ParamNameArgs \ {NullStr}}
CipherTexts == {SqlText(n) : n \in CipherNameArgs \ {NullStr}}
SqlInts == {SqlInt(v) : v \in Values}

\* Argument lists of the SQL function: one argument; a common parameter with a
\* value or a cipher name; a cipher with a parameter name; three arguments.
SqlArgs ==
  {<<a>> : a \in ParamTexts \cup CipherTexts \cup {SqlText(<<"max:", "sqlcipher">>), SqlNull}}
    \cup {<<a, b>> : a \in ParamTexts, b \in SqlInts \cup CipherTexts \cup {SqlNull}}
    \cup {<<a, b>> : a \in CipherTexts, b \in ParamTexts \cup {SqlInt(1)}}
    \cup {<<a, b, c>> : a \in CipherTexts \cup {SqlText(<<"hmac_check">>)},
                        b \in ParamTexts,
                        c \in SqlInts \cup {SqlText(<<"1">>)}}

\* The query parameters of a URI: each key absent or with one of its values.
UriCipherArgs == {NullStr, <<"chacha20">>, <<"sqlcipher">>, <<"global">>, <<"aes128cbc">>}

UriKeys == {"hmac_check", "legacy", "kdf_iter"}

UriQueries ==
  {[k \in K |-> f[k]] : K \in SUBSET UriKeys,
                        f \in {g \in [UriKeys -> 0..(MaxIter + 1)] : g["hmac_check"] = 0}}

FileNames == {NoFileName} \cup {FileName(c, q) : c \in UriCipherArgs, q \in UriQueries}

(***************************************************************************)
(* The state machine: one action per entry point.  call holds the entry    *)
(* point the host is in between its return and the host's next call: the   *)
(* arguments, the result and the tables as they were when it was entered.  *)
(***************************************************************************)
Idle == [op |-> "idle"]

\* The host threads, and a thread that is in no entry point.
Threads == 1..MaxThreads

NoThread == 0

ThreadIdle ==
  [pc |-> "idle", op |-> "idle", db |-> NULL, cipherName |-> NullStr,
   paramName |-> NullStr, newValue |-> -1, argv |-> <<>>, inner |-> FALSE,
   j |-> 0, i |-> 0, value |-> -1, result |-> SqlNull]

\* A mutex nobody holds; the mutexes are those of the connections and the
\* process-wide static one.
Unlocked == [owner |-> NoThread, count |-> 0]

\* No thread is in an entry point and every mutex is free.
Quiet ==
  /\ thr = [t \in Threads |-> ThreadIdle]
  /\ mutex = [m \in {"A", "B", "X", "static"} |-> Unlocked]

Init ==
  /\ tables = [global  |-> globalCodecParameterTable,
               overlay |-> [c \in {"A"} |-> globalCodecParameterTable]]
  /\ call = Idle
  /\ ncalls = 0
  /\ Quiet

Config(db, paramName, newValue) ==
  /\ call = Idle /\ ncalls < MaxCalls
  /\ LET r == sqlite3mc_config(tables, db, paramName, newValue)
     IN  /\ tables' = r.h
         /\ call' = [op |-> "config", db |-> db, paramName |-> paramName,
                     newValue |-> newValue, value |-> r.value, legacy |-> <<>>,
                     pre |-> tables]
  /\ ncalls' = ncalls + 1
  /\ UNCHANGED <<thr, mutex>>

ConfigCipher(db, cipherName, paramName, newValue) ==
  /\ call = Idle /\ ncalls < MaxCalls
  /\ LET r == sqlite3mc_config_cipher(tables, db, cipherName, paramName, newValue)
     IN  /\ tables' = r.h
         /\ call' = [op |-> "config_cipher", db |-> db, cipherName |-> cipherName,
                     paramName |-> paramName, newValue |-> newValue,
                     value |-> r.value, legacy |-> r.legacy, pre |-> tables]
  /\ ncalls' = ncalls + 1
  /\ UNCHANGED <<thr, mutex>>

\* SELECT sqlite3mc_config(argv...) on connection db.
ConfigParams(db, argv) ==
  /\ call = Idle /\ ncalls < MaxCalls
  /\ LET r == sqlite3mcConfigParams(tables, db, argv)
     IN  /\ tables' = r.h
         /\ call' = [op |-> "sql", db |-> db, argv |-> argv, result |-> r.result,
                     legacy |-> r.legacy, pre |-> tables]
  /\ ncalls' = ncalls + 1
  /\ UNCHANGED <<thr, mutex>>

\* A database file is opened or attached on connection db.
ConfigureFromUri(db, file, configDefault) ==
  /\ call = Idle /\ ncalls < MaxCalls
  /\ LET r == sqlite3mcConfigureFromUri(tables, db, file, configDefault)
     IN  /\ tables' = r.h
         /\ call' = [op |-> "uri", db |-> db, file |-> file, configDefault |-> configDefault,
                     rc |-> r.rc, msg |-> r.msg, legacy |-> r.legacy, pre |-> tables]
  /\ ncalls' = ncalls + 1
  /\ UNCHANGED <<thr, mutex>>

\* The host takes the result; the next call may start.
Return ==
  /\ call # Idle
  /\ call' = Idle
  /\ UNCHANGED <<tables, ncalls, thr, mutex>>

\* The open connections, and those whose companion function yields a table.
Conns == DOMAIN tables.overlay
WithTable == {c \in Conns : tables.overlay[c] # NoTable}

\* The host's calls of the four entry points, over all their arguments.
HostConfig ==
  /\ call = Idle
  /\ \E db \in Conns \cup {NULL}, n \in ParamNameArgs, v \in Values : Config(db, n, v)

HostConfigCipher ==
  /\ call = Idle
  /\ \E db \in Conns \cup {NULL}, c \in CipherNameArgs, n \in ParamNameArgs, v \in Values :
       ConfigCipher(db, c, n, v)

HostConfigParams ==
  /\ call = Idle
  /\ \E db \in WithTable, argv \in SqlArgs : ConfigParams(db, argv)

HostConfigureFromUri ==
  /\ call = Idle
  /\ \E db \in Conns, file \in FileNames, d \in BOOLEAN : ConfigureFromUri(db, file, d)

Next ==
  \/ HostConfig
  \/ HostConfigCipher
  \/ HostConfigParams
  \/ HostConfigureFromUri
  \/ Return

Spec == Init /\ [][Next]_vars

(***************************************************************************)
(* Several connections.  A and B own a copy of the table, X has none (its  *)
(* companion function hands out no table).  The entry points are the same; *)
(* the host draws their arguments from smaller sets.                       *)
(***************************************************************************)
InitConns ==
  /\ tables = [global  |-> globalCodecParameterTable,
               overlay |-> [c \in {"A", "B", "X"} |->
                              IF c = "X" THEN NoTable ELSE globalCodecParameterTable]]
  /\ call = Idle
  /\ ncalls = 0
  /\ Quiet

ConnsParamNames ==
  {<<"cipher">>, <<"hmac_check">>, <<"default:", "hmac_check">>, <<"kdf_iter">>,
   <<"legacy">>, <<"default:", "legacy">>, <<"min:", "cipher">>}

ConnsCipherNames == {<<"sqlcipher">>, <<"chacha20">>, <<"global">>}

ConnsValues == {-1, 0, 1, 2}

ConnsSqlArgs ==
  {<<SqlText(n), SqlInt(v)>> : n \in ConnsParamNames, v \in ConnsValues}
    \cup {<<SqlText(<<"cipher">>), SqlText(c)>> : c \in ConnsCipherNames}
    \cup {<<SqlText(c), SqlText(n), SqlInt(v)>> :
            c \in ConnsCipherNames, n \in ConnsParamNames, v \in ConnsValues}

ConnsFileNames ==
  {NoFileName}
    \cup {FileName(c, q) : c \in {<<"sqlcipher">>, <<"aes128cbc">>},
                           q \in {<<>>, [k \in {"legacy"} |-> 1],
                                  [k \in {"hmac_check", "kdf_iter"} |->
                                     IF k = "kdf_iter" THEN 1 ELSE 0]}}

ConnsConfig ==
  /\ call = Idle
  /\ \E db \in Conns \cup {NULL}, n \in ConnsParamNames, v \in ConnsValues : Config(db, n, v)

ConnsConfigCipher ==
  /\ call = Idle
  /\ \E db \in Conns \cup {NULL}, c \in ConnsCipherNames, n \in ConnsParamNames,
        v \in ConnsValues : ConfigCipher(db, c, n, v)

ConnsConfigParams ==
  /\ call = Idle
  /\ \E db \in WithTable, argv \in ConnsSqlArgs : ConfigParams(db, argv)

ConnsConfigureFromUri ==
  /\ call = Idle
  /\ \E db \in Conns, file \in ConnsFileNames, d \in BOOLEAN : ConfigureFromUri(db, file, d)

NextConns ==
  \/ ConnsConfig
  \/ ConnsConfigCipher
  \/ ConnsConfigParams
  \/ ConnsConfigureFromUri
  \/ Return

SpecConns == InitConns /\ [][NextConns]_vars

(***************************************************************************)
(* Several threads on one connection.  Each thread makes one call; a call  *)
(* of sqlite3mc_config or sqlite3mc_config_cipher is cut into the steps    *)
(* another thread can come between: entering the mutex, reading the cell,  *)
(* the two assignments, leaving the mutex.  The SQL function runs inside   *)
(* the host's statement step, which holds the connection's mutex; the      *)
(* mutexes are the host's recursive mutexes.                               *)
(***************************************************************************)
\* Lines 89-96 and 209-216: the mutex that guards the cells of the call.
MutexOf(db) == IF db # NULL THEN db ELSE "static"

\* sqlite3_mutex_enter can return: the mutex is free or the thread holds it.
CanEnter(m, t) == m.owner = NoThread \/ m.owner = t

Entered(m, t) == [owner |-> t, count |-> m.count + 1]

\* sqlite3_mutex_leave: the last leave frees the mutex.
Left(m) == IF m.count = 1 THEN Unlocked ELSE [m EXCEPT !.count = m.count - 1]

\* Lines 87-89 and 207-209 with the mutex not entered.
AccessStartUnlocked == "read"

\* Lines 87-89 and 207-209: a call that found its parameter enters the mutex.
AccessStart == "enter"

\* The call of sqlite3mc_config_cipher the thread is in: its own, or the one
\* the legacy configurator makes for it (inner).
CurParam(r) ==
  IF r.inner
  THEN ParsePrefixes(IF ParsePrefixes(r.paramName).hasDefaultPrefix
                     THEN <<"default:", "kdf_iter">> ELSE <<"kdf_iter">>)
  ELSE ParsePrefixes(r.paramName)

CurNewValue(r) == IF r.inner THEN versionParams[r.newValue] ELSE r.newValue

\* The table, cipher entry and parameter entry the call works on.
CurRef(r) == IF r.db # NULL THEN sqlite3mcGetCodecParams(tables, r.db) ELSE GlobalRef

CurJ(r) ==
  IF r.inner THEN FindEntry(Deref(tables, CurRef(r)), <<"sqlcipher">>, 1) ELSE r.j

CurI(r) ==
  IF r.inner
  THEN FindParam(Deref(tables, CurRef(r))[CurJ(r)].m_params, <<"kdf_iter">>)
  ELSE r.i

CurCell(r) == Deref(tables, CurRef(r))[CurJ(r)].m_params[CurI(r)]

\* Lines 98 and 218-220: the call writes the cell.
CurWrites(r) ==
  IF r.op = "config"
  THEN ConfigWrites(CurCell(r), CurParam(r), CurNewValue(r))
  ELSE CipherWrites(CurCell(r), CurParam(r), CurNewValue(r))

\* Lines 101 and 222: the call assigns m_default.
CurWritesDefault(r) ==
  /\ CurParam(r).hasDefaultPrefix
  /\ r.op = "config" => ~StrIEq(CurParam(r).paramName, "hmac_check")

\* The thread's call has returned v without reaching a cell.
ThreadReturns(r, v) == [r EXCEPT !.pc = "done", !.value = v]

\* sqlite3mc_config, lines 45-88: refusals, the table, the search.
ThreadConfig(t, db, paramName, newValue) ==
  /\ thr[t].pc = "idle"
  /\ LET r == [thr[t] EXCEPT !.op = "config", !.db = db, !.paramName = paramName,
                             !.newValue = newValue]
         ref == IF db # NULL THEN sqlite3mcGetCodecParams(tables, db) ELSE GlobalRef
     IN  thr' = [thr EXCEPT ![t] =
           IF ConfigRefused(db, paramName, newValue) \/ ref = NULL
           THEN ThreadReturns(r, -1)
           ELSE LET i == FindParam(Deref(tables, ref)[1].m_params,
                                   ParsePrefixes(paramName).paramName)
                IN  IF Deref(tables, ref)[1].m_params[i].m_name = ""
                    THEN ThreadReturns(r, -1)
                    ELSE [r EXCEPT !.pc = AccessStart, !.j = 1, !.i = i]]
  /\ UNCHANGED <<tables, call, ncalls, mutex>>

\* sqlite3mc_config_cipher, lines 120-208: refusals, the table, the searches
\* and the call of the legacy configurator, which the thread enters first.
ThreadConfigCipher(t, db, cipherName, paramName, newValue) ==
  /\ thr[t].pc = "idle"
  /\ LET r == [thr[t] EXCEPT !.op = "config_cipher", !.db = db,
                             !.cipherName = cipherName, !.paramName = paramName,
                             !.newValue = newValue]
         ref == CodecParamsOf(tables, db)
     IN  thr' = [thr EXCEPT ![t] =
           IF CipherRefused(db, cipherName, paramName, newValue) \/ ref = NULL
           THEN ThreadReturns(r, -1)
           ELSE LET j == FindEntry(Deref(tables, ref), cipherName, 1)
                    i == FindParam(Deref(tables, ref)[j].m_params,
                                   ParsePrefixes(paramName).paramName)
                IN  IF Deref(tables, ref)[j].m_name = ""
                    THEN ThreadReturns(r, -1)
                    ELSE IF LegacyInvoked(db, cipherName, ParsePrefixes(paramName), newValue)
                    THEN [r EXCEPT !.pc = AccessStart, !.j = j, !.i = i, !.inner = TRUE]
                    ELSE IF Deref(tables, ref)[j].m_params[i].m_name = ""
                    THEN ThreadReturns(r, -1)
                    ELSE [r EXCEPT !.pc = AccessStart, !.j = j, !.i = i]]
  /\ UNCHANGED <<tables, call, ncalls, mutex>>

\* Lines 91/95 and 211/215: sqlite3_mutex_enter.
MutexEnter(t) ==
  /\ thr[t].pc = "enter"
  /\ CanEnter(mutex[MutexOf(thr[t].db)], t)
  /\ mutex' = [mutex EXCEPT ![MutexOf(thr[t].db)] = Entered(@, t)]
  /\ thr' = [thr EXCEPT ![t].pc = "read"]
  /\ UNCHANGED <<tables, call, ncalls>>

\* Lines 97-98 and 217-220: the view is read and the write is decided.
ReadView(t) ==
  /\ thr[t].pc = "read"
  /\ thr' = [thr EXCEPT ![t].value = IF thr[t].inner THEN @
                                     ELSE ViewValue(CurCell(thr[t]), CurParam(thr[t])),
                        ![t].pc = IF ~CurWrites(thr[t]) THEN "leave"
                                  ELSE IF CurWritesDefault(thr[t]) THEN "wdefault"
                                  ELSE "wvalue"]
  /\ UNCHANGED <<tables, call, ncalls, mutex>>

\* Lines 103 and 224: param->m_default = newValue.
WriteDefault(t) ==
  /\ thr[t].pc = "wdefault"
  /\ tables' = StoreCell(tables, CurRef(thr[t]), CurJ(thr[t]), CurI(thr[t]),
                         [CurCell(thr[t]) EXCEPT !.m_default = CurNewValue(thr[t])])
  /\ thr' = [thr EXCEPT ![t].pc = "wvalue"]
  /\ UNCHANGED <<call, ncalls, mutex>>

\* Lines 105-106 and 226-227: param->m_value = newValue; value = newValue.
WriteValue(t) ==
  /\ thr[t].pc = "wvalue"
  /\ tables' = StoreCell(tables, CurRef(thr[t]), CurJ(thr[t]), CurI(thr[t]),
                         [CurCell(thr[t]) EXCEPT !.m_value = CurNewValue(thr[t])])
  /\ thr' = [thr EXCEPT ![t].value = IF thr[t].inner THEN @ ELSE CurNewValue(thr[t]),
                        ![t].pc = "leave"]
  /\ UNCHANGED <<call, ncalls, mutex>>

\* Lines 108-117 and 236-246: sqlite3_mutex_leave and the return; the legacy
\* configurator returns into the call that invoked it (line 203).
MutexLeave(t) ==
  /\ thr[t].pc = "leave"
  /\ mutex' = [mutex EXCEPT ![MutexOf(thr[t].db)] = Left(@)]
  /\ thr' = [thr EXCEPT ![t].pc = IF thr[t].inner THEN AccessStart ELSE "done",
                        ![t].inner = FALSE]
  /\ UNCHANGED <<tables, call, ncalls>>

\* A statement that calls the SQL function is stepped on connection db.
ThreadSql(t, db, argv) ==
  /\ thr[t].pc = "idle"
  /\ thr' = [thr EXCEPT ![t] = [@ EXCEPT !.op = "sql", !.db = db, !.argv = argv,
                                         !.pc = "step"]]
  /\ UNCHANGED <<tables, call, ncalls, mutex>>

\* The host's statement step enters the connection's mutex.
StepEnter(t) ==
  /\ thr[t].pc = "step"
  /\ CanEnter(mutex[MutexOf(thr[t].db)], t)
  /\ mutex' = [mutex EXCEPT ![MutexOf(thr[t].db)] = Entered(@, t)]
  /\ thr' = [thr EXCEPT ![t].pc = "body"]
  /\ UNCHANGED <<tables, call, ncalls>>

\* sqlite3mcConfigParams, lines 339-620, run by the statement step.
SqlBody(t) ==
  /\ thr[t].pc = "body"
  /\ LET r == sqlite3mcConfigParams(tables, thr[t].db, thr[t].argv)
     IN  /\ tables' = r.h
         /\ thr' = [thr EXCEPT ![t].result = r.result, ![t].pc = "stepleave"]
  /\ UNCHANGED <<call, ncalls, mutex>>

\* The statement step leaves the connection's mutex.
StepLeave(t) ==
  /\ thr[t].pc = "stepleave"
  /\ mutex' = [mutex EXCEPT ![MutexOf(thr[t].db)] = Left(@)]
  /\ thr' = [thr EXCEPT ![t].pc = "done"]
  /\ UNCHANGED <<tables, call, ncalls>>

\* The calls the threads make.
ThreadConfigArgs ==
  {<<"A", <<"cipher">>, -1>>, <<"A", <<"default:", "cipher">>, 2>>,
   <<"A", <<"hmac_check">>, 0>>, <<"A", <<"default:", "hmac_check">>, -1>>,
   <<NULL, <<"cipher">>, -1>>, <<NULL, <<"cipher">>, 2>>, <<"A", <<"nosuch">>, 1>>}

ThreadConfigCipherArgs ==
  {<<"A", <<"sqlcipher">>, <<"legacy">>, 1>>, <<"A", <<"sqlcipher">>, <<"legacy">>, 2>>,
   <<"A", <<"sqlcipher">>, <<"default:", "legacy">>, 1>>,
   <<"A", <<"sqlcipher">>, <<"kdf_iter">>, -1>>,
   <<"A", <<"sqlcipher">>, <<"default:", "kdf_iter">>, 1>>,
   <<"A", <<"sqlcipher">>, <<"legacy">>, -1>>,
   <<NULL, <<"chacha20">>, <<"legacy">>, -1>>}

ThreadSqlArgs ==
  {<<SqlText(<<"cipher">>)>>, <<SqlText(<<"cipher">>), SqlText(<<"sqlcipher">>)>>,
   <<SqlText(<<"sqlcipher">>), SqlText(<<"legacy">>), SqlInt(1)>>,
   <<SqlText(<<"sqlcipher">>), SqlText(<<"default:", "kdf_iter">>), SqlInt(1)>>}

InitThreads ==
  /\ tables = [global  |-> globalCodecParameterTable,
               overlay |-> [c \in {"A"} |-> globalCodecParameterTable]]
  /\ call = Idle
  /\ ncalls = 0
  /\ Quiet

ThreadsConfig ==
  \E t \in Threads : \E a \in ThreadConfigArgs : ThreadConfig(t, a[1], a[2], a[3])

ThreadsConfigCipher ==
  \E t \in Threads : \E a \in ThreadConfigCipherArgs :
    ThreadConfigCipher(t, a[1], a[2], a[3], a[4])

ThreadsSql == \E t \in Threads : \E argv \in ThreadSqlArgs : ThreadSql(t, "A", argv)

ThreadsMutexEnter == \E t \in Threads : MutexEnter(t)

ThreadsReadView == \E t \in Threads : ReadView(t)

ThreadsWriteDefault == \E t \in Threads : WriteDefault(t)

ThreadsWriteValue == \E t \in Threads : WriteValue(t)

ThreadsMutexLeave == \E t \in Threads : MutexLeave(t)

ThreadsStepEnter == \E t \in Threads : StepEnter(t)

ThreadsSqlBody == \E t \in Threads : SqlBody(t)

ThreadsStepLeave == \E t \in Threads : StepLeave(t)

NextThreads ==
  \/ ThreadsConfig
  \/ ThreadsConfigCipher
  \/ ThreadsSql
  \/ ThreadsMutexEnter
  \/ ThreadsReadView
  \/ ThreadsWriteDefault
  \/ ThreadsWriteValue
  \/ ThreadsMutexLeave
  \/ ThreadsStepEnter
  \/ ThreadsSqlBody
  \/ ThreadsStepLeave

SpecThreads == InitThreads /\ [][NextThreads]_vars

(***************************************************************************)
(* The SQL function on the tables it can be registered with.  The table    *)
(* is the function's user data (line 360): besides the copy of the         *)
(* program's table, the function is run on a table in which a cipher       *)
(* carries the name of a common parameter.                                 *)
(***************************************************************************)
\* The table with its cipher chacha20 named hmac_check.
clashCodecParameterTable ==
  [globalCodecParameterTable EXCEPT ![2].m_name = "hmac_check"]

NamesTables == {globalCodecParameterTable, clashCodecParameterTable}

InitNames ==
  /\ tables \in {[global  |-> globalCodecParameterTable,
                  overlay |-> [c \in {"A"} |-> t]] : t \in NamesTables}
  /\ call = Idle
  /\ ncalls = 0
  /\ Quiet

\* First arguments: every prefix on common names, cipher names and an unknown
\* name, and two prefixes in the order the parser takes and in the other one.
NamesFirstArgs ==
  {SqlText(x \o <<b>>) : x \in Prefixes,
                         b \in {"cipher", "hmac_check", "sqlcipher", "chacha20", "nosuch"}}
    \cup {SqlText(<<"default:", "max:", "hmac_check">>),
          SqlText(<<"min:", "default:", "cipher">>)}

NamesSecondArgs ==
  {SqlInt(0), SqlInt(1), SqlText(<<"sqlcipher">>), SqlText(<<"legacy">>),
   SqlText(<<"default:", "kdf_iter">>)}

NamesSqlArgs ==
  {<<a>> : a \in NamesFirstArgs}
    \cup {<<a, b>> : a \in NamesFirstArgs, b \in NamesSecondArgs}
    \cup {<<a, b, c>> : a \in NamesFirstArgs,
                        b \in {SqlText(<<"legacy">>), SqlText(<<"default:", "kdf_iter">>)},
                        c \in {SqlInt(1), SqlInt(2)}}

NamesConfigParams ==
  /\ call = Idle
  /\ \E argv \in NamesSqlArgs : ConfigParams("A", argv)

NextNames ==
  \/ NamesConfigParams
  \/ Return

SpecNames == InitNames /\ [][NextNames]_vars

(***************************************************************************)
(* Properties.  The cells are addressed here by position: scope j of a     *)
(* table, cell i of the scope's schema, found by exact name in the static  *)
(* table.                                                                  *)
(***************************************************************************)
\* The tables that exist: the process-wide one and each connection's copy.
AllTables == {tables.global} \cup {tables.overlay[c] : c \in WithTable}

Schema(j) == globalCodecParameterTable[j].m_params

Scopes == {j \in DOMAIN globalCodecParameterTable : globalCodecParameterTable[j].m_name # ""}

CellsOf(j) == {i \in DOMAIN Schema(j) : Schema(j)[i].m_name # ""}

\* The scope a cipher name addresses and the cell a plain name addresses in it.
HasScope(cipherName) ==
  Len(cipherName) = 1 /\ \E j \in Scopes : globalCodecParameterTable[j].m_name = cipherName[1]

ScopeOf(cipherName) ==
  CHOOSE j \in Scopes : globalCodecParameterTable[j].m_name = cipherName[1]

HasCell(j, name) == \E i \in CellsOf(j) : Schema(j)[i].m_name = name

CellIndex(j, name) == CHOOSE i \in CellsOf(j) : Schema(j)[i].m_name = name

\* The table a programmatic call with handle db works on.
TableOf(h, db) == IF db = NULL THEN h.global ELSE h.overlay[db]

InRange(cell) ==
  /\ cell.m_minValue <= cell.m_value /\ cell.m_value <= cell.m_maxValue
  /\ cell.m_minValue <= cell.m_default /\ cell.m_default <= cell.m_maxValue

\* C1: in every reachable state every cell of every scope of every table has
\* min <= current <= max and min <= default <= max.
CellsInRange ==
  \A t \in AllTables : \A j \in Scopes : \A i \in CellsOf(j) : InRange(t[j].m_params[i])

\* C1, its case: a URI with cipher=sqlcipher&kdf_iter=1 has moved kdf_iter of
\* the connection to its lower limit.
CellsInRangeWitness ==
  /\ call.op = "uri"
  /\ call.pre.overlay["A"][3].m_params[1].m_value = MaxIter
  /\ tables.overlay["A"][3].m_params[1].m_value = 1
  /\ tables.overlay["A"][1].m_params[1].m_value = CODEC_TYPE_MAX

\* C2: no call changes the min or max of a cell, and a read through min: or
\* max: returns the limit the cell was created with.
LimitsNeverChange ==
  /\ \A t \in AllTables : \A j \in Scopes : \A i \in CellsOf(j) :
       /\ t[j].m_params[i].m_minValue = Schema(j)[i].m_minValue
       /\ t[j].m_params[i].m_maxValue = Schema(j)[i].m_maxValue
  /\ \A b \in BaseNames :
       /\ (call.op = "config" /\ HasCell(1, b) /\ call.db # NULL)
            => /\ call.paramName = <<"min:", b>>
                    => call.value = Schema(1)[CellIndex(1, b)].m_minValue
               /\ call.paramName = <<"max:", b>>
                    => call.value = Schema(1)[CellIndex(1, b)].m_maxValue
       /\ (call.op = "config_cipher" /\ call.db # NULL /\ HasScope(call.cipherName))
            => LET j == ScopeOf(call.cipherName) IN
               HasCell(j, b) =>
                 /\ call.paramName = <<"min:", b>>
                      => call.value = Schema(j)[CellIndex(j, b)].m_minValue
                 /\ call.paramName = <<"max:", b>>
                      => call.value = Schema(j)[CellIndex(j, b)].m_maxValue
       /\ (call.op = "sql" /\ Len(call.argv) = 2 /\ HasScope(ValueText(call.argv[1])))
            => LET j == ScopeOf(ValueText(call.argv[1])) IN
               HasCell(j, b) =>
                 /\ call.argv[2] = SqlText(<<"min:", b>>)
                      => call.result = SqlInt(Schema(j)[CellIndex(j, b)].m_minValue)
                 /\ call.argv[2] = SqlText(<<"max:", b>>)
                      => call.result = SqlInt(Schema(j)[CellIndex(j, b)].m_maxValue)

\* C2, its case: after a default: write has changed kdf_iter, the max: view of
\* it is read and still returns the original limit.
LimitsNeverChangeWitness ==
  /\ call.op = "config_cipher" /\ call.db = "A"
  /\ call.cipherName = <<"sqlcipher">> /\ call.paramName = <<"max:", "kdf_iter">>
  /\ call.value = MaxIter
  /\ tables.overlay["A"][3].m_params[1].m_default = 1

\* A parameter name that carries a min: or max: prefix.
CarriesLimitPrefix(name) ==
  \E k \in DOMAIN name : name[k] \in {"min:", "max:"}

\* The current and the default of every cell are as they were before the call.
CellsUnchanged ==
  /\ \A j \in Scopes : \A i \in CellsOf(j) :
       /\ tables.global[j].m_params[i].m_value = call.pre.global[j].m_params[i].m_value
       /\ tables.global[j].m_params[i].m_default = call.pre.global[j].m_params[i].m_default
  /\ \A c \in WithTable : \A j \in Scopes : \A i \in CellsOf(j) :
       /\ tables.overlay[c][j].m_params[i].m_value
            = call.pre.overlay[c][j].m_params[i].m_value
       /\ tables.overlay[c][j].m_params[i].m_default
            = call.pre.overlay[c][j].m_params[i].m_default

\* The parameter name of the call in progress, on each surface that takes one.
CallParamName ==
  CASE call.op \in {"config", "config_cipher"} -> call.paramName
    [] call.op = "sql" /\ Len(call.argv) = 3 /\ call.argv[2].type = "text" -> call.argv[2].text
    [] call.op = "sql" /\ Len(call.argv) = 2 /\ call.argv[1].type = "text"
         /\ call.argv[2].type = "text" /\ HasScope(call.argv[1].text)
         /\ ~HasCell(1, call.argv[1].text[1]) -> call.argv[2].text
    [] call.op = "sql" /\ call.argv[1].type = "text" -> call.argv[1].text
    [] OTHER -> <<>>

\* C3: a call whose parameter name carries a min: or max: prefix performs no
\* write, on every surface and for every value: the current and the default of
\* every cell are unchanged after the call.
NoWriteUnderLimitPrefix ==
  (call # Idle /\ CarriesLimitPrefix(CallParamName)) => CellsUnchanged

\* A value the cell i of scope j accepts.
Accepted(j, i, v) ==
  v >= 0 /\ v >= Schema(j)[i].m_minValue /\ v <= Schema(j)[i].m_maxValue

\* The cell hmac_check of the common scope.
IsHmacCheck(j, b) == j = 1 /\ b = "hmac_check"

\* sqlite3mc_config(db, "default:" b, v) has written a cell other than hmac_check.
DefaultWrittenByConfig(b) ==
  /\ call.op = "config" /\ call.db # NULL
  /\ call.paramName = <<"default:", b>>
  /\ HasCell(1, b) /\ ~IsHmacCheck(1, b)
  /\ Accepted(1, CellIndex(1, b), call.newValue)

\* sqlite3mc_config_cipher(db, c, "default:" b, v) has written such a cell.
DefaultWrittenByConfigCipher(b) ==
  /\ call.op = "config_cipher" /\ call.db # NULL
  /\ call.paramName = <<"default:", b>>
  /\ HasScope(call.cipherName)
  /\ HasCell(ScopeOf(call.cipherName), b) /\ ~IsHmacCheck(ScopeOf(call.cipherName), b)
  /\ Accepted(ScopeOf(call.cipherName), CellIndex(ScopeOf(call.cipherName), b),
              call.newValue)

\* SELECT sqlite3mc_config(c, 'default:' b, v) has written such a cell.
DefaultWrittenBySql(b) ==
  /\ call.op = "sql" /\ Len(call.argv) = 3
  /\ call.argv[1].type = "text" /\ HasScope(call.argv[1].text)
  /\ ~HasCell(1, call.argv[1].text[1])
  /\ call.argv[2] = SqlText(<<"default:", b>>)
  /\ call.argv[3].type = "integer"
  /\ HasCell(ScopeOf(call.argv[1].text), b) /\ ~IsHmacCheck(ScopeOf(call.argv[1].text), b)
  /\ Accepted(ScopeOf(call.argv[1].text), CellIndex(ScopeOf(call.argv[1].text), b),
              call.argv[3].int)

\* C4: for every cell other than hmac_check, after a value v the cell accepts
\* is written through the default: view, the default and the current of the
\* cell are v, and a read through default: and a read without prefix return v.
DefaultWriteReadsBack ==
  \A b \in BaseNames :
    /\ DefaultWrittenByConfig(b) =>
         LET cell == tables.overlay[call.db][1].m_params[CellIndex(1, b)] IN
         /\ cell.m_default = call.newValue /\ cell.m_value = call.newValue
         /\ sqlite3mc_config(tables, call.db, <<"default:", b>>, -1).value = call.newValue
         /\ sqlite3mc_config(tables, call.db, <<b>>, -1).value = call.newValue
    /\ DefaultWrittenByConfigCipher(b) =>
         LET j    == ScopeOf(call.cipherName)
             cell == tables.overlay[call.db][j].m_params[CellIndex(j, b)]
         IN
         /\ cell.m_default = call.newValue /\ cell.m_value = call.newValue
         /\ sqlite3mc_config_cipher(tables, call.db, call.cipherName,
                                    <<"default:", b>>, -1).value = call.newValue
         /\ sqlite3mc_config_cipher(tables, call.db, call.cipherName,
                                    <<b>>, -1).value = call.newValue
    /\ DefaultWrittenBySql(b) =>
         LET j    == ScopeOf(call.argv[1].text)
             cell == tables.overlay[call.db][j].m_params[CellIndex(j, b)]
         IN
         /\ cell.m_default = call.argv[3].int /\ cell.m_value = call.argv[3].int
         /\ sqlite3mcConfigParams(tables, call.db,
              <<call.argv[1], SqlText(<<"default:", b>>)>>).result = call.argv[3]
         /\ sqlite3mcConfigParams(tables, call.db,
              <<call.argv[1], SqlText(<<b>>)>>).result = call.argv[3]

\* C4, its case: default:kdf_iter of sqlcipher is written with 1 while the
\* default and the current of the cell were MaxIter.
DefaultWriteReadsBackWitness ==
  /\ DefaultWrittenByConfigCipher("kdf_iter")
  /\ call.cipherName = <<"sqlcipher">> /\ call.newValue = 1
  /\ call.pre.overlay["A"][3].m_params[1].m_default = MaxIter
  /\ call.pre.overlay["A"][3].m_params[1].m_value = MaxIter

\* The cell hmac_check of a table.
HmacCheckOf(t) == t[1].m_params[CellIndex(1, "hmac_check")]

\* A write through default: to hmac_check on one of the three surfaces that
\* reach it by its common name, and the value written.
HmacDefaultWrite ==
  \/ /\ call.op = "config" /\ call.db # NULL
     /\ call.paramName = <<"default:", "hmac_check">>
     /\ Accepted(1, CellIndex(1, "hmac_check"), call.newValue)
  \/ /\ call.op = "sql" /\ Len(call.argv) = 2
     /\ call.argv[1] = SqlText(<<"default:", "hmac_check">>)
     /\ call.argv[2].type = "integer"
     /\ Accepted(1, CellIndex(1, "hmac_check"), call.argv[2].int)
  \/ /\ call.op = "uri" /\ call.configDefault /\ call.rc = "SQLITE_OK"
     /\ ~call.file.null /\ call.file.cipher # NullStr
     /\ "hmac_check" \in DOMAIN call.file.q

HmacWritten ==
  CASE call.op = "config" -> call.newValue
    [] call.op = "sql"    -> call.argv[2].int
    [] call.op = "uri"    -> call.file.q["hmac_check"]

\* C5: a write through default: to the common cell hmac_check (sqlite3mc_config,
\* the SQL function with two arguments, a URI with configDefault set) leaves the
\* default of the cell as it was and sets its current to the value written;
\* hence the default of hmac_check is the same in every reachable state.
HmacDefaultPinned ==
  /\ HmacDefaultWrite =>
       /\ HmacCheckOf(tables.overlay[call.db]).m_default
            = HmacCheckOf(call.pre.overlay[call.db]).m_default
       /\ HmacCheckOf(tables.overlay[call.db]).m_value = HmacWritten
  /\ \A t \in AllTables : HmacCheckOf(t).m_default = HmacCheckOf(globalCodecParameterTable).m_default

\* The value the view a prefix asks for holds in a cell.
ViewOf(cell, prefix) ==
  CASE prefix = <<>>           -> cell.m_value
    [] prefix = <<"default:">> -> cell.m_default
    [] prefix = <<"min:">>     -> cell.m_minValue
    [] prefix = <<"max:">>     -> cell.m_maxValue

\* C6: for every resolvable name, every prefix and every value, the integer
\* sqlite3mc_config and sqlite3mc_config_cipher return on a connection is the
\* value the requested view of the resolved cell holds after the call, also
\* for a default: write to hmac_check.
ReturnsViewAfterCall ==
  \A x \in Prefixes : \A b \in BaseNames :
    /\ (call.op = "config" /\ call.db # NULL /\ call.paramName = x \o <<b>> /\ HasCell(1, b))
         => call.value = ViewOf(tables.overlay[call.db][1].m_params[CellIndex(1, b)], x)
    /\ (call.op = "config_cipher" /\ call.db # NULL /\ call.paramName = x \o <<b>>
          /\ HasScope(call.cipherName) /\ HasCell(ScopeOf(call.cipherName), b))
         => call.value
              = ViewOf(tables.overlay[call.db][ScopeOf(call.cipherName)]
                         .m_params[CellIndex(ScopeOf(call.cipherName), b)], x)

\* The prefixes under which a call may write.
WritePrefixes == {<<>>, <<"default:">>}

\* A value outside the limits of cell i of scope j.
OutOfRange(j, i, v) == v < Schema(j)[i].m_minValue \/ v > Schema(j)[i].m_maxValue

\* A programmatic call on a connection writes, under prefix x, a value v >= 0
\* outside the limits of the cell b it resolves (v < 0 asks for a read).
OutOfRangeConfig(x, b) ==
  /\ call.op = "config" /\ call.db # NULL /\ call.paramName = x \o <<b>>
  /\ call.newValue >= 0
  /\ HasCell(1, b) /\ OutOfRange(1, CellIndex(1, b), call.newValue)

OutOfRangeConfigCipher(x, b) ==
  /\ call.op = "config_cipher" /\ call.db # NULL /\ call.paramName = x \o <<b>>
  /\ call.newValue >= 0
  /\ HasScope(call.cipherName) /\ HasCell(ScopeOf(call.cipherName), b)
  /\ OutOfRange(ScopeOf(call.cipherName), CellIndex(ScopeOf(call.cipherName), b),
                call.newValue)

\* The same through the SQL function: two arguments on a common parameter,
\* three arguments on a parameter of a cipher.
OutOfRangeSql(x, b) ==
  /\ call.op = "sql"
  /\ \/ /\ Len(call.argv) = 2 /\ call.argv[1] = SqlText(x \o <<b>>)
        /\ call.argv[2].type = "integer"
        /\ HasCell(1, b) /\ OutOfRange(1, CellIndex(1, b), call.argv[2].int)
     \/ /\ Len(call.argv) = 3 /\ call.argv[1].type = "text"
        /\ HasScope(call.argv[1].text) /\ ~HasCell(1, call.argv[1].text[1])
        /\ call.argv[2] = SqlText(x \o <<b>>) /\ call.argv[3].type = "integer"
        /\ HasCell(ScopeOf(call.argv[1].text), b)
        /\ OutOfRange(ScopeOf(call.argv[1].text),
                      CellIndex(ScopeOf(call.argv[1].text), b), call.argv[3].int)

\* The cell b of scope j of the call's connection as it was before the call.
PreCell(j, b) == call.pre.overlay[call.db][j].m_params[CellIndex(j, b)]

\* C7 as amended: a write of a value outside the limits of the resolved cell
\* returns, through sqlite3mc_config and sqlite3mc_config_cipher on a
\* connection, the stored value of the requested view, and through the SQL
\* function null; in both cases no current and no default changes.
OutOfRangeKeepsCells ==
  \A x \in WritePrefixes : \A b \in BaseNames :
    /\ OutOfRangeConfig(x, b) =>
         call.value = ViewOf(PreCell(1, b), x) /\ CellsUnchanged
    /\ OutOfRangeConfigCipher(x, b) =>
         call.value = ViewOf(PreCell(ScopeOf(call.cipherName), b), x) /\ CellsUnchanged
    /\ OutOfRangeSql(x, b) => call.result = SqlNull /\ CellsUnchanged

\* C7, its case: kdf_iter of sqlcipher was set to 1; the write of 0, below its
\* lower limit, returns 1.
OutOfRangeKeepsCellsWitness ==
  /\ OutOfRangeConfigCipher(<<>>, "kdf_iter")
  /\ call.cipherName = <<"sqlcipher">> /\ call.newValue = 0
  /\ call.value = 1 /\ MaxIter > 1

\* C7 as claimed: such a write returns -1 through sqlite3mc_config and
\* sqlite3mc_config_cipher on a connection and null through the SQL function, and
\* no current and no default changes.
OutOfRangeReturnsSentinel ==
  \A x \in WritePrefixes : \A b \in BaseNames :
    /\ OutOfRangeConfig(x, b) => call.value = -1 /\ CellsUnchanged
    /\ OutOfRangeConfigCipher(x, b) => call.value = -1 /\ CellsUnchanged
    /\ OutOfRangeSql(x, b) => call.result = SqlNull /\ CellsUnchanged

\* C8: a call of sqlite3mc_config or sqlite3mc_config_cipher with a negative
\* value on a resolvable name changes no cell of any table and returns the
\* stored value of the requested view; and after a write of an accepted w >= 0
\* under a plain name, the call with -1 under that name returns w.
NegativeValueReads ==
  \A x \in Prefixes : \A b \in BaseNames :
    /\ (call.op = "config" /\ call.newValue < 0 /\ call.paramName = x \o <<b>>
          /\ HasCell(1, b))
         => /\ tables = call.pre
            /\ call.value = ViewOf(TableOf(call.pre, call.db)[1].m_params[CellIndex(1, b)], x)
    /\ (call.op = "config_cipher" /\ call.newValue < 0 /\ call.paramName = x \o <<b>>
          /\ HasScope(call.cipherName) /\ HasCell(ScopeOf(call.cipherName), b))
         => /\ tables = call.pre
            /\ call.legacy = <<>>
            /\ call.value
                 = ViewOf(TableOf(call.pre, call.db)[ScopeOf(call.cipherName)]
                            .m_params[CellIndex(ScopeOf(call.cipherName), b)], x)
    /\ (call.op = "config" /\ call.db # NULL /\ call.paramName = <<b>> /\ HasCell(1, b)
          /\ Accepted(1, CellIndex(1, b), call.newValue))
         => sqlite3mc_config(tables, call.db, <<b>>, -1)
              = [h |-> tables, value |-> call.newValue]
    /\ (call.op = "config_cipher" /\ call.db # NULL /\ call.paramName = <<b>>
          /\ HasScope(call.cipherName) /\ HasCell(ScopeOf(call.cipherName), b)
          /\ Accepted(ScopeOf(call.cipherName), CellIndex(ScopeOf(call.cipherName), b),
                      call.newValue))
         => sqlite3mc_config_cipher(tables, call.db, call.cipherName, <<b>>, -1)
              = [h |-> tables, value |-> call.newValue, legacy |-> <<>>]

\* C8, its case: after the current of cipher was set to 2 on the connection,
\* the call with -1 under default:cipher returns the default, 1, and the call
\* changes nothing.
NegativeValueReadsWitness ==
  /\ call.op = "config" /\ call.db = "A" /\ call.newValue = -1
  /\ call.paramName = <<"default:", "cipher">>
  /\ call.pre.overlay["A"][1].m_params[1].m_value = 2
  /\ call.value = 1

\* C9: sqlite3mc_config_cipher without a connection and with v >= 0 returns -1,
\* leaves every cell of the global table (and of every other table) as it was
\* and does not call the legacy configurator, whatever the names and prefixes.
NoGlobalCipherWrite ==
  (call.op = "config_cipher" /\ call.db = NULL /\ call.newValue >= 0)
    => /\ call.value = -1
       /\ tables = call.pre
       /\ call.legacy = <<>>

\* C9, its case: legacy of sqlcipher is written with 1 without a connection,
\* the call that on a connection runs the legacy configurator.
NoGlobalCipherWriteWitness ==
  /\ call.op = "config_cipher" /\ call.db = NULL
  /\ call.cipherName = <<"sqlcipher">> /\ call.paramName = <<"legacy">>
  /\ call.newValue = 1 /\ call.value = -1

\* C10 as amended: sqlite3mc_config without a connection and with v >= 0
\* returns -1 and leaves the global table (and every other table) as it was.
NoGlobalConfigWrite ==
  (call.op = "config" /\ call.db = NULL /\ call.newValue >= 0)
    => call.value = -1 /\ tables = call.pre

\* C10, its case: cipher is written with 2, a value the cell accepts, without
\* a connection.
NoGlobalConfigWriteWitness ==
  /\ call.op = "config" /\ call.db = NULL
  /\ call.paramName = <<"cipher">> /\ call.newValue = 2
  /\ call.value = -1
  /\ tables.global[1].m_params[1].m_value = 1

\* C10 as claimed: sqlite3mc_config without a connection, with a resolvable
\* common name and a value v >= 0 the cell accepts, sets the current of the
\* global cell to v (and its default under default:, except for hmac_check)
\* and returns v.
GlobalConfigWrites ==
  \A x \in WritePrefixes : \A b \in BaseNames :
    (call.op = "config" /\ call.db = NULL /\ call.paramName = x \o <<b>>
       /\ HasCell(1, b) /\ Accepted(1, CellIndex(1, b), call.newValue))
      => /\ call.value = call.newValue
         /\ tables.global[1].m_params[CellIndex(1, b)].m_value = call.newValue
         /\ (x = <<"default:">> /\ b # "hmac_check")
              => tables.global[1].m_params[CellIndex(1, b)].m_default = call.newValue

\* Two heaps hold the same current and default in every cell of connection db.
SameCells(h1, h2, db) ==
  \A j \in Scopes : \A i \in CellsOf(j) :
    /\ h1.overlay[db][j].m_params[i].m_value = h2.overlay[db][j].m_params[i].m_value
    /\ h1.overlay[db][j].m_params[i].m_default = h2.overlay[db][j].m_params[i].m_default

\* C11: the programmatic entry points and the SQL function write alike: for
\* every state, name, prefix and integer v, sqlite3mc_config(db, name, v) leaves
\* the cells of the connection as SELECT sqlite3mc_config(name, v) does, and
\* sqlite3mc_config_cipher(db, cipher, param, v) as
\* SELECT sqlite3mc_config(cipher, param, v) does.
ApiAndSqlWriteAlike ==
  /\ (call.op = "config" /\ call.db # NULL /\ call.paramName # NullStr)
       => SameCells(tables,
                    sqlite3mcConfigParams(call.pre, call.db,
                      <<SqlText(call.paramName), SqlInt(call.newValue)>>).h,
                    call.db)
  /\ (call.op = "config_cipher" /\ call.db # NULL
        /\ call.paramName # NullStr /\ call.cipherName # NullStr)
       => SameCells(tables,
                    sqlite3mcConfigParams(call.pre, call.db,
                      <<SqlText(call.cipherName), SqlText(call.paramName),
                        SqlInt(call.newValue)>>).h,
                    call.db)

\* C12: a call made with connection d, through any of the four entry points,
\* leaves the process-wide table and the table of every other connection as
\* they were before the call: only cells of d's own table may change.
OverlayIsolation ==
  (call # Idle /\ call.db \in Conns)
    => /\ tables.global = call.pre.global
       /\ \A d \in Conns \ {call.db} : tables.overlay[d] = call.pre.overlay[d]

\* A call on A has changed A's table while B's table, changed by an earlier
\* call, is still what that earlier call left.
OverlayIsolationWitness ==
  /\ call # Idle /\ call.db = "A"
  /\ tables.overlay["A"] # call.pre.overlay["A"]
  /\ tables.overlay["B"] # globalCodecParameterTable
  /\ tables.overlay["B"] # tables.overlay["A"]

\* The connections whose companion function hands out no table.
NoOverlay == Conns \ WithTable

AccessPcs == {"read", "wdefault", "wvalue", "leave", "body", "stepleave"}

SerialCall(h, r) ==
  IF r.op = "config"
  THEN sqlite3mc_config(h, r.db, r.paramName, r.newValue)
  ELSE LET c == sqlite3mc_config_cipher(h, r.db, r.cipherName, r.paramName, r.newValue)
       IN  [h |-> c.h, value |-> c.value]

\* The orders in which the threads' calls can be run one after the other.
SerialOrders == {s \in [Threads -> Threads] : \A t, u \in Threads : s[t] = s[u] => t = u}

RECURSIVE SerialAgrees(_, _, _)
\* Running the calls s[k], s[k+1], ... alone, from heap h, returns to every
\* thread the value it got and ends in the tables as they are.
SerialAgrees(h, s, k) ==
  IF k > MaxThreads THEN h = tables
  ELSE /\ SerialCall(h, thr[s[k]]).value = thr[s[k]].value
       /\ SerialAgrees(SerialCall(h, thr[s[k]]).h, s, k + 1)

\* C15: when all threads have finished calls of sqlite3mc_config and
\* sqlite3mc_config_cipher on one connection, the values they returned and the
\* cells they left are those of the calls run in some serial order.
Linearizable ==
  (\A t \in Threads : /\ thr[t].pc = "done"
                      /\ thr[t].op \in {"config", "config_cipher"}
                      /\ thr[t].db = "A")
    => \E s \in SerialOrders :
         SerialAgrees([global  |-> globalCodecParameterTable,
                       overlay |-> [c \in {"A"} |-> globalCodecParameterTable]], s, 1)

\* The entries of the table that are ciphers: all but the common entry.
CipherScopes == Scopes \ {1}

\* The name is that of a cipher of the table.
IsCipherName(n) ==
  \E j \in CipherScopes : StrIEq(n, globalCodecParameterTable[j].m_name)

\* C16: URI ingestion with a cipher name that is no cipher of the table
\* returns SQLITE_ERROR with the message unknown cipher '<name>', changes no
\* cell of any table and does not invoke the legacy configurator, whatever
\* else the URI carries; without a file name or without cipher= it returns
\* SQLITE_OK and changes nothing either.
UriUnknownCipher ==
  call.op = "uri"
    => /\ (call.file # NoFileName /\ call.file.cipher # NullStr
             /\ ~IsCipherName(call.file.cipher))
            => /\ call.rc = "SQLITE_ERROR"
               /\ call.msg = <<"unknown cipher '">> \o call.file.cipher \o <<"'">>
               /\ tables = call.pre
               /\ call.legacy = <<>>
       /\ (call.file = NoFileName \/ call.file.cipher = NullStr)
            => /\ call.rc = "SQLITE_OK"
               /\ tables = call.pre
               /\ call.legacy = <<>>

\* The URI names the common entry as its cipher and carries hmac_check=0,
\* legacy and kdf_iter; the call has returned the error.
UriUnknownCipherWitness ==
  /\ call.op = "uri" /\ call.db \in WithTable
  /\ call.file # NoFileName /\ call.file.cipher = <<"global">>
  /\ DOMAIN call.file.q = {"hmac_check", "legacy", "kdf_iter"}
  /\ call.file.q["legacy"] = 1
  /\ call.rc = "SQLITE_ERROR"

\* C17: after URI ingestion with cipher=c and an in-range value for every
\* parameter of c's schema, the current of every parameter of c in the
\* connection's table is the value the URI gave, and the current of the
\* common parameter cipher is the index of c.
UriRoundTrip ==
  \A j \in CipherScopes :
    (/\ call.op = "uri" /\ call.db \in WithTable /\ call.file # NoFileName
     /\ StrIEq(call.file.cipher, globalCodecParameterTable[j].m_name)
     /\ \A i \in CellsOf(j) :
          /\ Schema(j)[i].m_name \in DOMAIN call.file.q
          /\ Accepted(j, i, call.file.q[Schema(j)[i].m_name]))
      => /\ \A i \in CellsOf(j) :
              tables.overlay[call.db][j].m_params[i].m_value
                = call.file.q[Schema(j)[i].m_name]
         /\ tables.overlay[call.db][1].m_params[CellIndex(1, "cipher")].m_value = j - 1

\* The name is that of cipher k of the descriptor table.
IsDescriptor(n, k) == StrIEq(n, codecDescriptorTable[k].m_name)

\* C18: SELECT sqlite3mc_config('cipher', n), also under default:, with the
\* name n of cipher k returns the name, sets the current of the common
\* parameter cipher to k (and its default under default:), and a following
\* SELECT sqlite3mc_config('cipher') returns the name; with a name of no
\* cipher it returns null and changes nothing.
SqlCipherRoundTrip ==
  \A x \in WritePrefixes :
    (/\ call.op = "sql" /\ Len(call.argv) = 2
     /\ call.argv[1] = SqlText(x \o <<"cipher">>)
     /\ call.argv[2].type = "text")
      => LET n == call.argv[2].text
             cell == tables.overlay[call.db][1].m_params[CellIndex(1, "cipher")]
         IN  /\ \A k \in 1..CODEC_TYPE_MAX :
                  IsDescriptor(n, k)
                    => /\ call.result = SqlText(n)
                       /\ cell.m_value = k
                       /\ x = <<"default:">> => cell.m_default = k
                       /\ sqlite3mcConfigParams(tables, call.db,
                                                <<SqlText(<<"cipher">>)>>).result = SqlText(n)
             /\ (\A k \in 1..CODEC_TYPE_MAX : ~IsDescriptor(n, k))
                  => call.result = SqlNull /\ tables = call.pre

\* The cipher was chacha20 and default:cipher has been set to sqlcipher.
SqlCipherRoundTripWitness ==
  /\ call.op = "sql" /\ Len(call.argv) = 2
  /\ call.argv[1] = SqlText(<<"default:", "cipher">>)
  /\ call.argv[2] = SqlText(<<"sqlcipher">>)
  /\ call.pre.overlay[call.db][1].m_params[CellIndex(1, "cipher")].m_value = 1
  /\ call.result = SqlText(<<"sqlcipher">>)

\* Cell i of entry j of connection db's table is as it was before the call.
CellKept(db, j, i) ==
  tables.overlay[db][j].m_params[i] = call.pre.overlay[db][j].m_params[i]

\* C19: a call of sqlite3mc_config_cipher(db, c, N, v) changes no cell but the
\* cell N of c's schema, and in particular neither the common cell N nor a
\* cell of another cipher; a call of sqlite3mc_config(db, N, v) changes no
\* cell but the common cell N.
NamespacesDoNotAlias ==
  /\ (call.op = "config_cipher" /\ call.db \in WithTable
        /\ call.cipherName # NullStr /\ call.paramName # NullStr)
       => \A j \in Scopes : \A i \in CellsOf(j) :
            \/ CellKept(call.db, j, i)
            \/ /\ j \in CipherScopes
               /\ StrIEq(call.cipherName, globalCodecParameterTable[j].m_name)
               /\ StrIEq(ParsePrefixes(call.paramName).paramName, Schema(j)[i].m_name)
  /\ (call.op = "config" /\ call.db \in WithTable /\ call.paramName # NullStr)
       => \A j \in Scopes : \A i \in CellsOf(j) :
            \/ CellKept(call.db, j, i)
            \/ /\ j = 1
               /\ StrIEq(ParsePrefixes(call.paramName).paramName, Schema(j)[i].m_name)

\* The condition of the legacy special case on cipher name c, parameter name
\* n (prefixes included) and value v.
LegacyCase(c, n, v) ==
  /\ StrIEq(c, "sqlcipher")
  /\ StrIEq(ParsePrefixes(n).paramName, "legacy")
  /\ ~ParsePrefixes(n).hasMinPrefix /\ ~ParsePrefixes(n).hasMaxPrefix
  /\ 1 <= v /\ v <= SQLCIPHER_VERSION_MAX

\* The legacy cell of sqlcipher in connection db's table.
LegacyCell(db) ==
  tables.overlay[db][ScopeOf(<<"sqlcipher">>)].m_params[CellIndex(ScopeOf(<<"sqlcipher">>), "legacy")]

\* The call on connection db with parameter name n and value v has invoked the
\* configurator once, with (db, hasDefaultPrefix, v), and written the legacy cell.
LegacyDone(db, n, v, log) ==
  /\ log = <<LegacyCall(db, ParsePrefixes(n).hasDefaultPrefix, v)>>
  /\ LegacyCell(db).m_value = v
  /\ ParsePrefixes(n).hasDefaultPrefix => LegacyCell(db).m_default = v

\* C20: on a connection, sqlite3mc_config_cipher(db, c, n, v) and the
\* three-argument SQL form invoke the legacy configurator, once and with
\* (db, hasDefaultPrefix, v), exactly when c is sqlcipher, n without its
\* prefixes is legacy, n carries neither min: nor max: and
\* 1 <= v <= SQLCIPHER_VERSION_MAX; the legacy cell is then written with v as
\* well; in every other case the configurator is not invoked.
LegacyExactly ==
  /\ (call.op = "config_cipher" /\ call.db \in WithTable
        /\ call.cipherName # NullStr /\ call.paramName # NullStr)
       => IF LegacyCase(call.cipherName, call.paramName, call.newValue)
          THEN /\ LegacyDone(call.db, call.paramName, call.newValue, call.legacy)
               /\ call.value = call.newValue
          ELSE call.legacy = <<>>
  /\ (call.op = "sql" /\ Len(call.argv) = 3
        /\ call.argv[1].type = "text" /\ call.argv[2].type = "text")
       => IF /\ call.argv[3].type = "integer"
             /\ LegacyCase(call.argv[1].text, call.argv[2].text, call.argv[3].int)
          THEN /\ LegacyDone(call.db, call.argv[2].text, call.argv[3].int, call.legacy)
               /\ call.result = call.argv[3]
          ELSE call.legacy = <<>>
  /\ (call.op = "sql" /\ Len(call.argv) < 3) => call.legacy = <<>>

\* SELECT sqlite3mc_config('sqlcipher', 'default:legacy', 2) has invoked the
\* configurator with isDefault set.
LegacyExactlyWitness ==
  /\ call.op = "sql" /\ Len(call.argv) = 3
  /\ call.argv = <<SqlText(<<"sqlcipher">>), SqlText(<<"default:", "legacy">>), SqlInt(2)>>
  /\ call.legacy = <<LegacyCall(call.db, TRUE, 2)>>
  /\ LegacyCell(call.db).m_default = 2

\* Name n is that of a common parameter of table t; of an entry of table t.
IsCommonName(t, n) ==
  \E i \in DOMAIN t[1].m_params :
    t[1].m_params[i].m_name # "" /\ StrIEq(n, t[1].m_params[i].m_name)

IsScopeName(t, n) ==
  \E j \in DOMAIN t : t[j].m_name # "" /\ StrIEq(n, t[j].m_name)

\* The common cell and the entry the name addresses.
CommonCellOf(t, n) ==
  t[1].m_params[CHOOSE i \in DOMAIN t[1].m_params :
                  t[1].m_params[i].m_name # "" /\ StrIEq(n, t[1].m_params[i].m_name)]

ScopeEntryOf(t, n) ==
  t[CHOOSE j \in DOMAIN t : t[j].m_name # "" /\ StrIEq(n, t[j].m_name)]

Prefixed(p) == p.hasDefaultPrefix \/ p.hasMinPrefix \/ p.hasMaxPrefix

\* C21: in the SQL function a first argument that, with default:, min:, max:
\* taken off in this order, is the name of a common parameter addresses the
\* common cell even when a cipher bears the same name (the one-argument form
\* returns the cell's view, no cell of a cipher changes, the configurator is
\* not called); otherwise it addresses a cipher only when it has no prefix
\* (the one-argument form returns the cipher's parameter names); a prefixed
\* cipher name and an unknown name give null, change no cell and do not call
\* the configurator, with one, two and three arguments.
SqlNameResolution ==
  (/\ call.op = "sql" /\ call.argv[1].type # "null"
   /\ Len(call.argv) > 1 => call.argv[2].type # "null")
    => LET t == call.pre.overlay[call.db]
           p == ParsePrefixes(ValueText(call.argv[1]))
           n == p.paramName
       IN  /\ IsCommonName(t, n)
                => /\ \A j \in 2..Len(t) : tables.overlay[call.db][j] = t[j]
                   /\ call.legacy = <<>>
                   /\ (Len(call.argv) = 1 /\ ~StrIEq(n, "cipher"))
                        => call.result = SqlInt(ViewOf(CommonCellOf(t, n),
                               IF p.hasDefaultPrefix THEN <<"default:">>
                               ELSE IF p.hasMinPrefix THEN <<"min:">>
                               ELSE IF p.hasMaxPrefix THEN <<"max:">> ELSE <<>>))
                   /\ (Len(call.argv) = 1 /\ StrIEq(n, "cipher"))
                        => call.result.type = "text"
           /\ (~IsCommonName(t, n) /\ ~Prefixed(p) /\ IsScopeName(t, n)
                 /\ Len(call.argv) = 1)
                => call.result = SqlText(JoinNames(ScopeEntryOf(t, n).m_params, 1))
           /\ (~IsCommonName(t, n) /\ (Prefixed(p) \/ ~IsScopeName(t, n)))
                => /\ call.result = SqlNull
                   /\ tables = call.pre
                   /\ call.legacy = <<>>

\* The table has a cipher named hmac_check and the function was called with
\* hmac_check and the name of a parameter of that cipher: the common cell was
\* addressed and the call gave null.
SqlNameResolutionWitness ==
  /\ call.op = "sql"
  /\ call.pre.overlay[call.db] = clashCodecParameterTable
  /\ call.argv = <<SqlText(<<"hmac_check">>), SqlText(<<"legacy">>), SqlInt(1)>>
  /\ call.result = SqlNull

\* k is the 1-based index of a cipher of the descriptor table.
ValidCipherIndex(k) ==
  k \in 1..Len(codecDescriptorTable) /\ codecDescriptorTable[k].m_name # ""

\* The common cell cipher of table t.
CipherCellOf(t) == t[1].m_params[CellIndex(1, "cipher")]

\* C22: in every reachable state the current, default, minimum and maximum of
\* the common cell cipher, in the process-wide table and in every
\* connection's, are indices of ciphers of the descriptor table, so the
\* one-argument SQL read of cipher, under every prefix, returns a cipher's
\* name and never reads outside the descriptor table.
CipherIndexValid ==
  /\ \A t \in AllTables :
       /\ ValidCipherIndex(CipherCellOf(t).m_value)
       /\ ValidCipherIndex(CipherCellOf(t).m_default)
       /\ ValidCipherIndex(CipherCellOf(t).m_minValue)
       /\ ValidCipherIndex(CipherCellOf(t).m_maxValue)
  /\ \A db \in WithTable : \A x \in Prefixes :
       sqlite3mcConfigParams(tables, db, <<SqlText(x \o <<"cipher">>)>>).result
         = SqlText(<<codecDescriptorTable[ViewOf(CipherCellOf(tables.overlay[db]), x)].m_name>>)
  /\ (call.op = "sql" /\ Len(call.argv) = 1) => call.result.type # "out-of-bounds read"

\* URI ingestion or an integer write has moved the current of cipher away from
\* its default, and the one-argument form has read the cipher's name under
\* default:.
CipherIndexValidWitness ==
  /\ call.op = "sql"
  /\ call.argv = <<SqlText(<<"default:", "cipher">>)>>
  /\ CipherCellOf(tables.overlay[call.db]).m_value = 2
  /\ CipherCellOf(tables.overlay[call.db]).m_default = 1
  /\ call.result = SqlText(<<"chacha20">>)

====
